---- MODULE Spec2Model ----
(***************************************************************************)
(* Model of the personal expense tracker: the Expense entity               *)
(* (src/expense_tracker.py, class Expense), the ledger engine              *)
(* (class ExpenseTracker) and the budget view of the menu layer            *)
(* (src/tracker.py, track_budget_flow).                                    *)
(*                                                                         *)
(* Text is a sequence of one-character strings, so that strip(), lower(),  *)
(* strptime/strftime and Decimal parsing/formatting are computed rather    *)
(* than assumed.  A Decimal is the triple of decimal.Decimal.as_tuple()    *)
(* (sign, coefficient, exponent) plus the special values NaN and Infinity. *)
(***************************************************************************)
EXTENDS Integers, Sequences, FiniteSets, TLC

(***************************************************************************)
(* Text helpers (str.strip, str.lower, digits)                             *)
(***************************************************************************)
IsSpace(c) == c = " "

RECURSIVE LStrip(_)
LStrip(s) == IF s # <<>> /\ IsSpace(Head(s)) THEN LStrip(Tail(s)) ELSE s

RECURSIVE RStrip(_)
RStrip(s) == IF s # <<>> /\ IsSpace(s[Len(s)])
             THEN RStrip(SubSeq(s, 1, Len(s) - 1)) ELSE s

\* str.strip()
strip(s) == RStrip(LStrip(s))

LowerChar(c) ==
  CASE c = "F" -> "f" [] c = "T" -> "t" [] c = "L" -> "l" [] c = "E" -> "e"
    [] c = "I" -> "i" [] c = "N" -> "n" [] c = "A" -> "a" [] c = "Y" -> "y"
    [] OTHER -> c

\* str.lower()
lower(s) == [i \in 1..Len(s) |-> LowerChar(s[i])]

DigitChars == <<"0", "1", "2", "3", "4", "5", "6", "7", "8", "9">>

IsDigit(c) == \E i \in 1..10 : DigitChars[i] = c

DigitVal(c) == (CHOOSE i \in 1..10 : DigitChars[i] = c) - 1

AllDigits(s) == \A i \in 1..Len(s) : IsDigit(s[i])

\* int(s) for a (possibly empty) run of digits; the empty run counts 0
RECURSIVE DigitsVal(_)
DigitsVal(s) == IF s = <<>> THEN 0
                ELSE 10 * DigitsVal(SubSeq(s, 1, Len(s) - 1)) + DigitVal(s[Len(s)])

\* str(n) for a natural number
RECURSIVE NatText(_)
NatText(n) == IF n < 10 THEN <<DigitChars[n + 1]>>
              ELSE NatText(n \div 10) \o <<DigitChars[(n % 10) + 1]>>

Zeros(n) == [i \in 1..n |-> "0"]

\* zero-padded decimal field of strftime (%Y: width 4, %m and %d: width 2)
Pad(n, w) == LET t == NatText(n) IN IF Len(t) >= w THEN t ELSE Zeros(w - Len(t)) \o t

\* first position of character c in s, 0 when absent
Pos(s, c) == IF \E i \in 1..Len(s) : s[i] = c
             THEN CHOOSE i \in 1..Len(s) : s[i] = c /\ \A j \in 1..(i - 1) : s[j] # c
             ELSE 0

RECURSIVE Pow10(_)
Pow10(n) == IF n <= 0 THEN 1 ELSE 10 * Pow10(n - 1)

(***************************************************************************)
(* decimal.Decimal: construction from text, format(d, 'f'), comparison     *)
(* with zero, addition and subtraction                                     *)
(***************************************************************************)
Fin(s, c, e) == [k |-> "fin", s |-> s, c |-> c, e |-> e]
Inf(s) == [k |-> "inf", s |-> s, c |-> 0, e |-> 0]
NaN == [k |-> "nan", s |-> 0, c |-> 0, e |-> 0]
DecZero == Fin(0, 0, 0)

\* the outcome of an operation that raises decimal.InvalidOperation
DecRaise == [k |-> "raise", s |-> 0, c |-> 0, e |-> 0]

\* exponent part "[-+]?\d+" of a numeric string
ExpOk(x) == LET d == IF x # <<>> /\ Head(x) \in {"-", "+"} THEN Tail(x) ELSE x
            IN d # <<>> /\ AllDigits(d)

ExpVal(x) == IF Head(x) = "-" THEN 0 - DigitsVal(Tail(x))
             ELSE IF Head(x) = "+" THEN DigitsVal(Tail(x)) ELSE DigitsVal(x)

\* Decimal(text): [ok |-> FALSE] stands for decimal.InvalidOperation
DecimalParse(text) ==
  LET t0   == strip(text)
      sgn  == IF t0 # <<>> /\ Head(t0) = "-" THEN 1 ELSE 0
      body == lower(IF t0 # <<>> /\ Head(t0) \in {"-", "+"} THEN Tail(t0) ELSE t0)
      pe   == Pos(body, "e")
      mant == IF pe = 0 THEN body ELSE SubSeq(body, 1, pe - 1)
      expo == IF pe = 0 THEN <<>> ELSE SubSeq(body, pe + 1, Len(body))
      pd   == Pos(mant, ".")
      ip   == IF pd = 0 THEN mant ELSE SubSeq(mant, 1, pd - 1)
      fp   == IF pd = 0 THEN <<>> ELSE SubSeq(mant, pd + 1, Len(mant))
  IN  IF body = <<"i", "n", "f">> \/ body = <<"i", "n", "f", "i", "n", "i", "t", "y">>
        THEN [ok |-> TRUE, v |-> Inf(sgn)]
      ELSE IF body = <<"n", "a", "n">>
        THEN [ok |-> TRUE, v |-> [NaN EXCEPT !.s = sgn]]
      ELSE IF /\ AllDigits(ip) /\ AllDigits(fp) /\ Len(ip) + Len(fp) > 0
              /\ (pe = 0 \/ ExpOk(expo))
        THEN [ok |-> TRUE,
              v  |-> Fin(sgn, DigitsVal(ip \o fp),
                         (IF pe = 0 THEN 0 ELSE ExpVal(expo)) - Len(fp))]
      ELSE [ok |-> FALSE, v |-> DecRaise]

\* format(d, 'f'): fixed point, no exponent, no thousands separator
format_f(d) ==
  LET sg == IF d.s = 1 THEN <<"-">> ELSE <<>>
      dg == NatText(d.c)
      n  == Len(dg)
  IN  IF d.k = "nan" THEN sg \o <<"N", "a", "N">>
      ELSE IF d.k = "inf" THEN sg \o <<"I", "n", "f", "i", "n", "i", "t", "y">>
      ELSE IF d.e >= 0 THEN sg \o (IF d.c = 0 THEN <<"0">> ELSE dg \o Zeros(d.e))
      ELSE IF n > 0 - d.e
        THEN sg \o SubSeq(dg, 1, n + d.e) \o <<".">> \o SubSeq(dg, n + d.e + 1, n)
      ELSE sg \o <<"0", ".">> \o Zeros((0 - d.e) - n) \o dg

\* d <= 0 ; "raise" for a NaN operand (decimal.InvalidOperation)
DecLeZero(d) == IF d.k = "nan" THEN "raise"
                ELSE IF d.k = "inf" THEN (IF d.s = 1 THEN "true" ELSE "false")
                ELSE IF d.c = 0 \/ d.s = 1 THEN "true" ELSE "false"

\* d >= 0 ; "raise" for a NaN operand
DecGeZero(d) == IF d.k = "nan" THEN "raise"
                ELSE IF d.k = "inf" THEN (IF d.s = 0 THEN "true" ELSE "false")
                ELSE IF d.c = 0 \/ d.s = 0 THEN "true" ELSE "false"

Min(a, b) == IF a <= b THEN a ELSE b

\* signed coefficient of a finite d at exponent e (e <= d.e)
Signed(d, e) == (IF d.s = 1 THEN -1 ELSE 1) * d.c * Pow10(d.e - e)

\* a + b
DecAdd(a, b) ==
  IF a.k = "raise" \/ b.k = "raise" THEN DecRaise
  ELSE IF a.k = "nan" THEN a
  ELSE IF b.k = "nan" THEN b
  ELSE IF a.k = "inf" /\ b.k = "inf" THEN (IF a.s = b.s THEN a ELSE DecRaise)
  ELSE IF a.k = "inf" THEN a
  ELSE IF b.k = "inf" THEN b
  ELSE LET e == Min(a.e, b.e)
           r == Signed(a, e) + Signed(b, e)
       IN  IF r < 0 THEN Fin(1, 0 - r, e)
           ELSE IF r > 0 THEN Fin(0, r, e)
           ELSE Fin(IF a.s = 1 /\ b.s = 1 THEN 1 ELSE 0, 0, e)

DecNeg(d) == IF d.k \in {"raise", "nan"} THEN d ELSE [d EXCEPT !.s = 1 - d.s]

\* a - b
DecSub(a, b) == DecAdd(a, DecNeg(b))

(***************************************************************************)
(* datetime: strptime(text, "%Y-%m-%d").date() and strftime                *)
(***************************************************************************)
Date(y, m, d) == [y |-> y, m |-> m, d |-> d]

NoDate == Date(0, 0, 0)

IsLeap(y) == (y % 4 = 0 /\ y % 100 # 0) \/ y % 400 = 0

DaysIn(y, m) == IF m = 2 THEN (IF IsLeap(y) THEN 29 ELSE 28)
                ELSE IF m \in {4, 6, 9, 11} THEN 30 ELSE 31

\* datetime.strptime(text, "%Y-%m-%d").date(); [ok |-> FALSE] stands for the ValueError
strptime_ymd(text) ==
  LET p1 == Pos(text, "-")
      r1 == SubSeq(text, p1 + 1, Len(text))
      p2 == Pos(r1, "-")
      ys == SubSeq(text, 1, p1 - 1)
      ms == SubSeq(r1, 1, p2 - 1)
      ds == SubSeq(r1, p2 + 1, Len(r1))
  IN  IF p1 = 0 \/ p2 = 0 THEN [ok |-> FALSE, v |-> NoDate]
      ELSE IF /\ Len(ys) = 4 /\ AllDigits(ys) /\ DigitsVal(ys) >= 1
              /\ Len(ms) \in 1..2 /\ AllDigits(ms) /\ DigitsVal(ms) \in 1..12
              /\ Len(ds) \in 1..2 /\ AllDigits(ds)
              /\ DigitsVal(ds) \in 1..DaysIn(DigitsVal(ys), DigitsVal(ms))
        THEN [ok |-> TRUE, v |-> Date(DigitsVal(ys), DigitsVal(ms), DigitsVal(ds))]
      ELSE [ok |-> FALSE, v |-> NoDate]

\* d.strftime("%Y-%m-%d")
strftime_ymd(d) == Pad(d.y, 4) \o <<"-">> \o Pad(d.m, 2) \o <<"-">> \o Pad(d.d, 2)

\* ExpenseTracker._month_key: d.strftime("%Y-%m")
month_key(d) == Pad(d.y, 4) \o <<"-">> \o Pad(d.m, 2)

(***************************************************************************)
(* Expense entity                                                          *)
(***************************************************************************)
Expense(d, c, a, ds) == [date |-> d, category |-> c, amount |-> a, description |-> ds]

NoExpense == Expense(NoDate, <<>>, DecZero, <<>>)

\* an optional text: Python's None is [some |-> FALSE]
Some(s) == [some |-> TRUE, s |-> s]
None == [some |-> FALSE, s |-> <<>>]

\* row.get(f): None when the mapping has no such key
Get(row, f) == IF f \in DOMAIN row THEN Some(row[f]) ELSE None

\* Python truthiness of an optional text ("if not x" is ~Truthy(x))
Truthy(x) == x.some /\ x.s # <<>>

Raised(kind, msg) == [kind |-> kind, msg |-> msg, exp |-> NoExpense]

\* Expense.from_row: kind "ok" with the expense, or the exception that leaves the call
from_row(row) ==
  LET date_str == Get(row, "date")
      dp       == strptime_ymd(strip(date_str.s))
      category == Get(row, "category")
      desc     == Get(row, "description")
      amt_str  == Get(row, "amount")
      ap       == DecimalParse(amt_str.s)
  IN  IF DOMAIN row = {} THEN Raised("ValueError", "Input row cannot be empty")
      ELSE IF ~Truthy(date_str) \/ ~dp.ok THEN Raised("ValueError", "Invalid date format")
      ELSE IF ~Truthy(category) THEN Raised("ValueError", "Missing category")
      ELSE IF ~Truthy(desc) THEN Raised("ValueError", "Missing description")
      ELSE IF ~Truthy(amt_str) THEN Raised("ValueError", "Missing amount")
      ELSE IF ~ap.ok THEN Raised("ValueError", "Invalid amount")
      ELSE IF DecLeZero(ap.v) = "raise" THEN Raised("InvalidOperation", "")
      ELSE IF DecLeZero(ap.v) = "true" THEN Raised("ValueError", "Amount must be positive")
      ELSE [kind |-> "ok", msg |-> "",
            exp  |-> Expense(dp.v, strip(category.s), ap.v, strip(desc.s))]

\* to_row with the day and the month of the date text exchanged ("%Y-%d-%m")
to_row_swapped(e) ==
  [date        |-> Pad(e.date.y, 4) \o <<"-">> \o Pad(e.date.d, 2) \o <<"-">> \o Pad(e.date.m, 2),
   category    |-> e.category,
   amount      |-> format_f(e.amount),
   description |-> e.description]

\* Expense.to_row
to_row(e) == [date        |-> strftime_ymd(e.date),
              category    |-> e.category,
              amount      |-> format_f(e.amount),
              description |-> e.description]

(***************************************************************************)
(* Ledger engine: state                                                    *)
(***************************************************************************)
VARIABLES
  expenses,   \* ExpenseTracker.expenses: sequence of Expense, in append order
  budgets,    \* ExpenseTracker.budgets: month key -> Decimal
  expFile,    \* the expense file: [exists, rows], rows as csv.DictReader yields them
  budFile,    \* the budget file: [kind, m], kind absent / invalid / list / map
  saved,      \* the ledger as it was at the last save() (history, not program state)
  op,         \* the last operation called
  arg,        \* its arguments
  ret         \* its return value or the exception that left it

vars == <<expenses, budgets, expFile, budFile, saved, op, arg, ret>>

\* bounds of the model
MaxExpenses == 2

EmptyBudgets == [k \in {} |-> DecZero]

NoArg == [none |-> TRUE]

\* an optional Decimal: Python's None is Absent
Present(d) == [some |-> TRUE, v |-> d]
Absent == [some |-> FALSE, v |-> DecZero]

(***************************************************************************)
(* Ledger engine: load and save                                            *)
(***************************************************************************)
\* the loop of _load_expenses over the rows: append and count, skip on
\* ValueError, and stop where any other exception leaves the loop
RECURSIVE load_rows(_, _, _)
RECURSIVE load_row(_, _, _, _)
load_row(r, rest, acc, count) ==
  IF r.kind = "ok" THEN load_rows(rest, Append(acc, r.exp), count + 1)
  ELSE IF r.kind = "ValueError" THEN load_rows(rest, acc, count)
  ELSE [exps |-> acc, count |-> count, raised |-> TRUE]

load_rows(rows, acc, count) ==
  IF rows = <<>> THEN [exps |-> acc, count |-> count, raised |-> FALSE]
  ELSE load_row(from_row(Head(rows)), Tail(rows), acc, count)

\* ExpenseTracker._load_expenses
load_expenses(exps, file) ==
  IF ~file.exists THEN [exps |-> exps, count |-> 0, raised |-> FALSE]
  ELSE load_rows(file.rows, exps, 0)

\* str(v) of a JSON value: a string is its text, a number its literal, null is None
PyStr(v) == IF v.t = "null" THEN <<"N", "o", "n", "e">> ELSE v.s

\* ExpenseTracker._load_budgets
load_budgets(buds, file) ==
  IF file.kind = "absent" THEN [buds |-> buds, count |-> 0]
  ELSE IF file.kind # "map" THEN [buds |-> EmptyBudgets, count |-> 0]
  ELSE IF \E k \in DOMAIN file.m : ~DecimalParse(PyStr(file.m[k])).ok
    THEN [buds |-> EmptyBudgets, count |-> 0]
  ELSE [buds  |-> [k \in DOMAIN file.m |-> DecimalParse(PyStr(file.m[k])).v],
        count |-> Cardinality(DOMAIN file.m)]

\* ExpenseTracker._save_expenses: header, then one row per expense in order
save_expenses(exps) == [exists |-> TRUE, rows |-> [i \in 1..Len(exps) |-> to_row(exps[i])]]

\* ExpenseTracker._save_budgets
save_budgets(buds) ==
  [kind |-> "map", m |-> [k \in DOMAIN buds |-> [t |-> "str", s |-> format_f(buds[k])]]]

\* ExpenseTracker.__init__
NewTracker ==
  /\ expenses' = <<>>
  /\ budgets' = EmptyBudgets
  /\ op' = "new" /\ arg' = NoArg /\ ret' = NoArg
  /\ UNCHANGED <<expFile, budFile, saved>>

\* load() once _load_expenses has returned le and _load_budgets lb
loaded(le, lb) ==
  [exps |-> le.exps, buds |-> lb.buds,
   ret  |-> [raised |-> "", exp_count |-> le.count, bud_count |-> lb.count]]

\* the outcome of load(): an exception that leaves _load_expenses leaves load()
\* before _load_budgets is called
load(le, buds, file) ==
  IF le.raised
    THEN [exps |-> le.exps, buds |-> buds,
          ret  |-> [raised |-> "InvalidOperation", exp_count |-> 0, bud_count |-> 0]]
    ELSE loaded(le, load_budgets(buds, file))

LoadTo(r) ==
  /\ Len(r.exps) <= MaxExpenses
  /\ expenses' = r.exps
  /\ budgets' = r.buds
  /\ ret' = r.ret
  /\ op' = "load" /\ arg' = NoArg
  /\ UNCHANGED <<expFile, budFile, saved>>

\* ExpenseTracker.load
Load == LoadTo(load(load_expenses(expenses, expFile), budgets, budFile))

\* ExpenseTracker.save
Save ==
  /\ expFile' = save_expenses(expenses)
  /\ budFile' = save_budgets(budgets)
  /\ saved' = [some |-> TRUE, exp |-> expenses, bud |-> budgets]
  /\ op' = "save" /\ arg' = NoArg /\ ret' = NoArg
  /\ UNCHANGED <<expenses, budgets>>

(***************************************************************************)
(* Ledger engine: mutations                                                *)
(***************************************************************************)
\* the Expense that add_expense constructs
new_expense(d, category, amount, description) ==
  Expense(d, strip(category), amount, strip(description))

\* ExpenseTracker.add_expense
AddExpense(d, category, amount, description) ==
  /\ Len(expenses) < MaxExpenses
  /\ expenses' = Append(expenses, new_expense(d, category, amount, description))
  /\ op' = "add_expense"
  /\ arg' = [date |-> d, category |-> category, amount |-> amount, description |-> description]
  /\ ret' = new_expense(d, category, amount, description)
  /\ UNCHANGED <<budgets, expFile, budFile, saved>>

\* set_budget without the check of the amount
set_budget_unchecked(buds, mk, amount) ==
  [raised |-> "",
   buds   |-> [k \in DOMAIN buds \cup {mk} |-> IF k = mk THEN amount ELSE buds[k]]]

\* the outcome of set_budget: the exception raised ("" for none) and the new map
set_budget(buds, mk, amount) ==
  IF DecLeZero(amount) = "raise" THEN [raised |-> "InvalidOperation", buds |-> buds]
  ELSE IF DecLeZero(amount) = "true" THEN [raised |-> "ValueError", buds |-> buds]
  ELSE [raised |-> "",
        buds   |-> [k \in DOMAIN buds \cup {mk} |-> IF k = mk THEN amount ELSE buds[k]]]

\* ExpenseTracker.set_budget
SetBudget(mk, amount) ==
  /\ budgets' = set_budget(budgets, mk, amount).buds
  /\ op' = "set_budget"
  /\ arg' = [month_key |-> mk, amount |-> amount]
  /\ ret' = [raised |-> set_budget(budgets, mk, amount).raised]
  /\ UNCHANGED <<expenses, expFile, budFile, saved>>

(***************************************************************************)
(* Ledger engine: queries                                                  *)
(***************************************************************************)
\* list_expenses with the category compared as written, without lower()
list_expenses_cased(exps, mk, cat) ==
  LET items == IF Truthy(mk)
                 THEN SelectSeq(exps, LAMBDA e : month_key(e.date) = mk.s)
                 ELSE exps
  IN  IF Truthy(cat)
        THEN SelectSeq(items, LAMBDA e : e.category = cat.s)
        ELSE items

\* ExpenseTracker.list_expenses; mk and cat are optional texts
list_expenses(exps, mk, cat) ==
  LET items == IF Truthy(mk)
                 THEN SelectSeq(exps, LAMBDA e : month_key(e.date) = mk.s)
                 ELSE exps
  IN  IF Truthy(cat)
        THEN SelectSeq(items, LAMBDA e : lower(e.category) = lower(cat.s))
        ELSE items

\* sum(amounts, start): a left fold of Decimal addition
RECURSIVE sum_amounts(_, _)
sum_amounts(items, acc) ==
  IF items = <<>> THEN acc
  ELSE sum_amounts(Tail(items), DecAdd(acc, Head(items).amount))

\* total_expenses that forgets to pass the month key on
total_expenses_unfiltered(exps, mk) == sum_amounts(exps, DecZero)

\* ExpenseTracker.total_expenses; the result DecRaise is decimal.InvalidOperation
total_expenses(exps, mk) == sum_amounts(list_expenses(exps, mk, None), DecZero)

\* ExpenseTracker.get_budget
get_budget(buds, mk) == IF mk \in DOMAIN buds THEN Present(buds[mk]) ELSE Absent

StatusRaised(mk) ==
  [raised |-> TRUE, month |-> mk, budget |-> Absent, total |-> Absent,
   remaining |-> Absent, status |-> ""]

\* ExpenseTracker.budget_status
budget_status(exps, buds, mk) ==
  LET total     == total_expenses(exps, Some(mk))
      budget    == get_budget(buds, mk)
      remaining == DecSub(budget.v, total)
  IN  IF total.k = "raise" THEN StatusRaised(mk)
      ELSE IF ~budget.some
        THEN [raised |-> FALSE, month |-> mk, budget |-> Present(NaN),
              total |-> Present(total), remaining |-> Present(NaN), status |-> "no_budget"]
      ELSE IF remaining.k = "raise" \/ DecGeZero(remaining) = "raise" THEN StatusRaised(mk)
      ELSE [raised |-> FALSE, month |-> mk, budget |-> budget,
            total |-> Present(total), remaining |-> Present(remaining),
            status |-> IF DecGeZero(remaining) = "true"
                         THEN "within_budget" ELSE "exceeded_budget"]

ListExpenses(mk, cat) ==
  /\ op' = "list_expenses"
  /\ arg' = [month_key |-> mk, category |-> cat]
  /\ ret' = list_expenses(expenses, mk, cat)
  /\ UNCHANGED <<expenses, budgets, expFile, budFile, saved>>

TotalExpenses(mk) ==
  /\ op' = "total_expenses"
  /\ arg' = [month_key |-> mk]
  /\ ret' = total_expenses(expenses, mk)
  /\ UNCHANGED <<expenses, budgets, expFile, budFile, saved>>

GetBudget(mk) ==
  /\ op' = "get_budget"
  /\ arg' = [month_key |-> mk]
  /\ ret' = get_budget(budgets, mk)
  /\ UNCHANGED <<expenses, budgets, expFile, budFile, saved>>

BudgetStatus(mk) ==
  /\ op' = "budget_status"
  /\ arg' = [month_key |-> mk]
  /\ ret' = budget_status(expenses, budgets, mk)
  /\ UNCHANGED <<expenses, budgets, expFile, budFile, saved>>

(***************************************************************************)
(* Menu layer: track_budget_flow (src/tracker.py)                          *)
(***************************************************************************)
\* ExpenseTracker.parse_amount: not ok is any exception, after which
\* the flow prompts again
parse_amount(text) ==
  LET p == DecimalParse(text)
  IN  IF p.ok /\ DecLeZero(p.v) = "false" THEN [ok |-> TRUE, v |-> p.v]
      ELSE [ok |-> FALSE, v |-> DecRaise]

\* status['budget'] == 'not_set': a Decimal compared with a str is never equal
EqualsText(d, text) == FALSE

\* the report of track_budget_flow after the optional set: what it prints
\* and the amount it hands to fmt_money
track_report(exps, buds, month) ==
  LET status == budget_status(exps, buds, month)
  IN  IF status.raised THEN [raised |-> TRUE, printed |-> "", amount |-> Absent]
      ELSE IF EqualsText(status.budget.v, "not_set")
        THEN [raised |-> FALSE, printed |-> "no_budget", amount |-> status.total]
      ELSE IF status.status = "exceeded_budget"
        THEN [raised |-> FALSE, printed |-> "exceeded",
              amount |-> Present(DecNeg(status.remaining.v))]
      ELSE [raised |-> FALSE, printed |-> "within", amount |-> status.remaining]

\* track_budget_flow: action "s" sets the budget from the first accepted
\* amount text (rejected texts only repeat the prompt), then both actions report
TrackBudgetFlow(month, action, amt_text) ==
  /\ action \in {"v", "s"}
  /\ action = "s" => parse_amount(amt_text).ok
  /\ budgets' = IF action = "s"
                  THEN set_budget(budgets, month, parse_amount(amt_text).v).buds
                  ELSE budgets
  /\ op' = "track_budget_flow"
  /\ arg' = [month_key |-> month, action |-> action]
  /\ ret' = track_report(expenses, budgets', month)
  /\ UNCHANGED <<expenses, expFile, budFile, saved>>

(***************************************************************************)
(* Inputs of the model                                                     *)
(***************************************************************************)
Jan15 == Date(2025, 1, 15)
Feb03 == Date(2025, 2, 3)

KeyJan == <<"2", "0", "2", "5", "-", "0", "1">>
KeyFeb == <<"2", "0", "2", "5", "-", "0", "2">>
KeyMar == <<"2", "0", "2", "5", "-", "0", "3">>

TxtJan15 == <<"2", "0", "2", "5", "-", "0", "1", "-", "1", "5">>
TxtFeb03Spaced == <<" ", "2", "0", "2", "5", "-", "2", "-", "3", " ">>
TxtBadDate == <<"2", "0", "2", "5", "-", "1", "3", "-", "0", "1">>

Txt250 == <<"2", ".", "5", "0">>
Txt1E1 == <<"1", "E", "+", "1">>
Txt2000 == <<"2", "0", ".", "0", "0">>
TxtNaN == <<"N", "a", "N">>
TxtInfinity == <<"I", "n", "f", "i", "n", "i", "t", "y">>

Dec250 == Fin(0, 250, -2)
Dec1E1 == Fin(0, 1, 1)
Dec2000 == Fin(0, 2000, -2)
DecMinus5 == Fin(1, 5, 0)

\* the argument tuples of add_expense the model draws from
AddInputs ==
  { <<Jan15, <<"F">>, Dec250, <<"L">> >>,
    <<Jan15, <<" ", "t", " ">>, Dec1E1, <<" ", "L">> >>,
    <<Feb03, <<"f">>, DecMinus5, <<"L">> >> }

BudgetKeys == {KeyJan, KeyFeb}
BudgetAmounts == {Dec2000, DecZero, DecMinus5}
BudgetTexts == {Txt2000, <<"0">>}

\* month keys and categories the queries are called with
QueryKeys == {KeyJan, KeyFeb, KeyMar}
ListQueries ==
  {<<mk, cat>> : mk \in {None, Some(KeyJan), Some(KeyFeb)}, cat \in {None, Some(<<"f">>)}}
    \cup {<<Some(<<>>), Some(<<>>)>>}
TotalQueries == {None, Some(KeyJan), Some(KeyFeb), Some(KeyMar)}

RowOk1 == [date |-> TxtJan15, category |-> <<"F">>, amount |-> Txt250, description |-> <<"L">>]
RowOk2 == [date |-> TxtFeb03Spaced, category |-> <<" ", "t", " ">>, amount |-> Txt1E1,
           description |-> <<"L">>]
RowNoCategory == [RowOk1 EXCEPT !.category = <<>>]
RowBlankCategory == [RowOk1 EXCEPT !.category = <<" ">>]
RowNonNumeric == [RowOk1 EXCEPT !.amount = <<"a">>]
RowZero == [RowOk1 EXCEPT !.amount = <<"0">>]
RowNaN == [RowOk1 EXCEPT !.amount = TxtNaN]
RowShort == [date |-> TxtJan15, category |-> <<"F">>]

FileOf(rows) == [exists |-> TRUE, rows |-> rows]
NoExpFile == [exists |-> FALSE, rows |-> <<>>]

ExpFileMixed == FileOf(<<RowOk1, RowNoCategory, RowOk2, RowNonNumeric>>)
ExpFileNaN == FileOf(<<RowOk1, RowNaN, RowOk2>>)
ExpFileBlank == FileOf(<<RowZero, RowShort, RowBlankCategory>>)

JStr(s) == [t |-> "str", s |-> s]
JNum(s) == [t |-> "num", s |-> s]
JNull == [t |-> "null", s |-> <<>>]

BudMap(m) == [kind |-> "map", m |-> m]
NoBudFile == [kind |-> "absent", m |-> EmptyBudgets]
InvalidBudFile == [kind |-> "invalid", m |-> EmptyBudgets]
ListBudFile == [kind |-> "list", m |-> EmptyBudgets]

BudFileOk == BudMap([k \in {KeyJan} |-> JStr(Txt2000)])
BudFileOneBad ==
  BudMap([k \in {KeyJan, KeyFeb} |-> IF k = KeyJan THEN JNum(<<"2", "0">>) ELSE JStr(<<"a">>)])
BudFileNull ==
  BudMap([k \in {KeyJan, KeyFeb} |-> IF k = KeyJan THEN JNum(<<"2", "0">>) ELSE JNull])
BudFileNaN ==
  BudMap([k \in {KeyJan, KeyFeb} |-> IF k = KeyJan THEN JStr(TxtNaN) ELSE JNum(<<"-", "5">>)])

\* the contents of the two files when the tracker is constructed
InitFiles ==
  { <<NoExpFile, NoBudFile>>,
    <<ExpFileMixed, BudFileOk>>,
    <<ExpFileBlank, BudFileOneBad>>,
    <<ExpFileNaN, InvalidBudFile>>,
    <<FileOf(<<>>), BudFileNaN>> }

(***************************************************************************)
(* The ledger as a state machine                                           *)
(***************************************************************************)
Init ==
  /\ expenses = <<>>
  /\ budgets = EmptyBudgets
  /\ \E f \in InitFiles : expFile = f[1] /\ budFile = f[2]
  /\ saved = [some |-> FALSE, exp |-> <<>>, bud |-> EmptyBudgets]
  /\ op = "new" /\ arg = NoArg /\ ret = NoArg

Mutate ==
  \/ Load
  \/ \E a \in AddInputs : AddExpense(a[1], a[2], a[3], a[4])
  \/ \E k \in BudgetKeys, amt \in BudgetAmounts : SetBudget(k, amt)

Query ==
  \/ \E q \in ListQueries : ListExpenses(q[1], q[2])
  \/ \E mk \in TotalQueries : TotalExpenses(mk)
  \/ \E k \in QueryKeys : GetBudget(k)
  \/ \E k \in QueryKeys : BudgetStatus(k)
  \/ \E k \in BudgetKeys : TrackBudgetFlow(k, "v", <<>>)
  \/ \E k \in BudgetKeys, t \in BudgetTexts : TrackBudgetFlow(k, "s", t)

\* one tracker, its files read by load() and never rewritten
Next == Mutate \/ Query

Spec == Init /\ [][Next]_vars

\* trackers constructed, saved and loaded over the same two files
PersistFiles == {<<NoExpFile, ListBudFile>>, <<ExpFileMixed, BudFileNull>>}

PersistAddInputs ==
  { <<Jan15, <<"F">>, Dec250, <<"L">> >>,
    <<Feb03, <<" ", "t", " ">>, Dec1E1, <<" ", "L">> >>,
    <<Feb03, <<" ">>, DecMinus5, <<"L">> >> }

InitPersist ==
  /\ expenses = <<>>
  /\ budgets = EmptyBudgets
  /\ \E f \in PersistFiles : expFile = f[1] /\ budFile = f[2]
  /\ saved = [some |-> FALSE, exp |-> <<>>, bud |-> EmptyBudgets]
  /\ op = "new" /\ arg = NoArg /\ ret = NoArg

NextPersist ==
  \/ NewTracker
  \/ Load
  \/ Save
  \/ \E a \in PersistAddInputs : AddExpense(a[1], a[2], a[3], a[4])
  \/ \E k \in BudgetKeys : SetBudget(k, Dec2000)

SpecPersist == InitPersist /\ [][NextPersist]_vars

(***************************************************************************)
(* The Expense constructor on its own: one raw field mapping, one call     *)
(***************************************************************************)
RowDates == {None, Some(<<>>), Some(TxtJan15), Some(TxtFeb03Spaced), Some(TxtBadDate)}
RowCategories == {None, Some(<<>>), Some(<<" ">>), Some(<<"F">>), Some(<<" ", "t", " ">>)}
RowDescriptions == {None, Some(<<>>), Some(<<" ", " ">>), Some(<<" ", "L">>)}
RowAmounts == {None, Some(<<>>), Some(<<"a">>), Some(<<"0">>), Some(<<"-", "5">>),
               Some(Txt250), Some(Txt1E1), Some(TxtNaN), Some(TxtInfinity)}

\* the mapping that holds exactly the fields that are not None
MkRow(d, c, ds, a) ==
  [f \in {g \in {"date", "category", "description", "amount"} :
            CASE g = "date" -> d.some [] g = "category" -> c.some
              [] g = "description" -> ds.some [] OTHER -> a.some}
     |-> CASE f = "date" -> d.s [] f = "category" -> c.s
           [] f = "description" -> ds.s [] OTHER -> a.s]

InitRow ==
  /\ expenses = <<>>
  /\ budgets = EmptyBudgets
  /\ expFile = NoExpFile
  /\ budFile = NoBudFile
  /\ saved = [some |-> FALSE, exp |-> <<>>, bud |-> EmptyBudgets]
  /\ op = "row"
  /\ \E d \in RowDates, c \in RowCategories, ds \in RowDescriptions, a \in RowAmounts :
       arg = [row |-> MkRow(d, c, ds, a)]
  /\ ret = NoArg

\* one call of Expense.from_row on the mapping
FromRow ==
  /\ op = "row"
  /\ op' = "from_row"
  /\ ret' = from_row(arg.row)
  /\ UNCHANGED <<expenses, budgets, expFile, budFile, saved, arg>>

SpecRow == InitRow /\ [][FromRow]_vars

(***************************************************************************)
(* What the specification asks of the program, stated without the          *)
(* program's own operators where a second formulation exists               *)
(***************************************************************************)
\* an optional text that is None, empty or whitespace only
Blank(x) == ~x.some \/ strip(x.s) = <<>>

\* the documented error kind of a raw field mapping, "" for a valid one:
\* the validation rules of the Expense entity in their documented order
RowFault(row) ==
  LET d == Get(row, "date")
      a == Get(row, "amount")
      p == DecimalParse(a.s)
  IN  IF ~Truthy(d) THEN "MissingDate"
      ELSE IF ~strptime_ymd(strip(d.s)).ok THEN "InvalidDate"
      ELSE IF Blank(Get(row, "category")) THEN "MissingCategory"
      ELSE IF Blank(Get(row, "description")) THEN "MissingDescription"
      ELSE IF ~Truthy(a) THEN "MissingAmount"
      ELSE IF ~p.ok \/ p.v.k # "fin" THEN "InvalidAmount"
      ELSE IF p.v.c = 0 \/ p.v.s = 1 THEN "NonPositiveAmount"
      ELSE ""

\* the error kind an outcome of from_row stands for, "" for an Expense
ErrorKind(r) ==
  CASE r.kind = "ok" -> ""
    [] r.kind = "ValueError" /\ r.msg = "Missing date" -> "MissingDate"
    [] r.kind = "ValueError" /\ r.msg = "Invalid date format" -> "InvalidDate"
    [] r.kind = "ValueError" /\ r.msg = "Missing category" -> "MissingCategory"
    [] r.kind = "ValueError" /\ r.msg = "Missing description" -> "MissingDescription"
    [] r.kind = "ValueError" /\ r.msg = "Missing amount" -> "MissingAmount"
    [] r.kind = "ValueError" /\ r.msg = "Invalid amount" -> "InvalidAmount"
    [] r.kind = "ValueError" /\ r.msg = "Amount must be positive" -> "NonPositiveAmount"
    [] OTHER -> "Undocumented"

\* the Expense a valid raw field mapping stands for
ValidExpenseOf(row) ==
  Expense(strptime_ymd(strip(row.date)).v, strip(row.category),
          DecimalParse(row.amount).v, strip(row.description))

\* the expenses of the valid rows of a file, in file order
RECURSIVE ValidExpenses(_)
ValidExpenses(rows) ==
  IF rows = <<>> THEN <<>>
  ELSE (IF RowFault(Head(rows)) = "" THEN <<ValidExpenseOf(Head(rows))>> ELSE <<>>)
         \o ValidExpenses(Tail(rows))

FileRows(file) == IF file.exists THEN file.rows ELSE <<>>

\* an expense that satisfies the entity's rules
ValidExpense(e) ==
  /\ e.amount.k = "fin" /\ e.amount.s = 0 /\ e.amount.c > 0
  /\ e.category # <<>> /\ strip(e.category) = e.category
  /\ e.description # <<>> /\ strip(e.description) = e.description

AllValid(exps) == \A i \in 1..Len(exps) : ValidExpense(exps[i])

\* the value of a finite Decimal in units of 10^e, for e no larger than its exponent
RefScaled(d, e) == (IF d.s = 1 THEN -1 ELSE 1) * d.c * Pow10(d.e - e)

\* two Decimals with the same value
SameDec(a, b) ==
  IF a.k = "fin" /\ b.k = "fin"
    THEN RefScaled(a, Min(a.e, b.e)) = RefScaled(b, Min(a.e, b.e))
    ELSE a.k = b.k /\ a.s = b.s

SameExpenses(xs, ys) ==
  /\ Len(xs) = Len(ys)
  /\ \A i \in 1..Len(xs) :
       /\ xs[i].date = ys[i].date
       /\ xs[i].category = ys[i].category
       /\ xs[i].description = ys[i].description
       /\ SameDec(xs[i].amount, ys[i].amount)

SameBudgets(x, y) ==
  /\ DOMAIN x = DOMAIN y
  /\ \A k \in DOMAIN x : SameDec(x[k], y[k])

\* the expense's date falls in the month that the canonical key YYYY-MM names
InMonth(e, key) ==
  /\ Len(key) = 7 /\ key[5] = "-"
  /\ AllDigits(SubSeq(key, 1, 4)) /\ AllDigits(SubSeq(key, 6, 7))
  /\ DigitsVal(SubSeq(key, 1, 4)) = e.date.y
  /\ DigitsVal(SubSeq(key, 6, 7)) = e.date.m

SameCategory(a, b) ==
  /\ Len(a) = Len(b)
  /\ \A i \in 1..Len(a) : LowerChar(a[i]) = LowerChar(b[i])

\* e satisfies every filter that is supplied (a filter that is None or empty is not)
Matches(e, mk, cat) ==
  /\ Truthy(mk) => InMonth(e, mk.s)
  /\ Truthy(cat) => SameCategory(e.category, cat.s)

NthOf(S, j) == CHOOSE i \in S : Cardinality({x \in S : x <= i}) = j

\* the matching expenses as a subsequence in stored order
RefList(exps, mk, cat) ==
  LET S == {i \in 1..Len(exps) : Matches(exps[i], mk, cat)}
  IN  [j \in 1..Cardinality(S) |-> exps[NthOf(S, j)]]

\* the least exponent among the amounts of the ledger, at most 0
RECURSIVE MinExp(_)
MinExp(S) == IF S = {} THEN 0
             ELSE LET d == CHOOSE x \in S : TRUE
                  IN  Min(IF d.k = "fin" THEN d.e ELSE 0, MinExp(S \ {d}))

RefExp == MinExp({expenses[i].amount : i \in 1..Len(expenses)}
                   \cup {budgets[k] : k \in DOMAIN budgets})

\* the sum of the matching amounts among the first n expenses, in units of 10^e
RECURSIVE RefSum(_, _, _, _)
RefSum(exps, n, mk, e) ==
  IF n = 0 THEN 0
  ELSE RefSum(exps, n - 1, mk, e)
         + (IF Matches(exps[n], mk, None) THEN RefScaled(exps[n].amount, e) ELSE 0)

\* the budget file does not parse as a whole
BudgetFileCorrupt(file) ==
  \/ file.kind \in {"invalid", "list"}
  \/ file.kind = "map" /\ \E k \in DOMAIN file.m : ~DecimalParse(PyStr(file.m[k])).ok

(***************************************************************************)
(* Claims                                                                  *)
(***************************************************************************)

\* C1: save() and then load() on a freshly constructed tracker over the same
\* two files returns (N, M) and gives back the N valid expenses, field by
\* field and in the same order, and the same month key -> amount budget map.
C1_RoundTrip ==
  [][(op = "new" /\ op' = "load" /\ saved.some /\ AllValid(saved.exp))
       => /\ ret'.raised = ""
          /\ ret'.exp_count = Len(saved.exp)
          /\ ret'.bud_count = Cardinality(DOMAIN saved.bud)
          /\ SameExpenses(expenses', saved.exp)
          /\ SameBudgets(budgets', saved.bud)]_vars

\* a tracker that has just loaded back two valid expenses of different
\* months, one of them saved from an exponent-form amount, and a budget
C1_Witness ==
  /\ op = "load" /\ saved.some /\ AllValid(saved.exp)
  /\ Len(saved.exp) = 2 /\ saved.exp[1].date # saved.exp[2].date
  /\ \E i \in 1..2 : saved.exp[i].amount.e > 0
  /\ DOMAIN saved.bud # {}
  /\ ret.raised = "" /\ ret.exp_count = 2
  /\ SameExpenses(expenses, saved.exp) /\ SameBudgets(budgets, saved.bud)

\* C2: every expense held in memory has amount > 0, and an add_expense with
\* amount <= 0 fails and adds nothing.
C2_AmountsPositive ==
  /\ \A i \in 1..Len(expenses) : DecLeZero(expenses[i].amount) = "false"
  /\ ~(op = "add_expense" /\ DecLeZero(arg.amount) = "true")

\* C3: from_row fails with the documented error kind for a missing or
\* malformed date, a missing or blank category or description, a missing,
\* non-numeric or non-positive amount, and otherwise returns an Expense whose
\* category and description are non-empty and trimmed.
C3_DocumentedErrors ==
  (op = "from_row" /\ DOMAIN arg.row # {})
    => /\ ErrorKind(ret) = RowFault(arg.row)
       /\ ret.kind = "ok" =>
            /\ ret.exp.category # <<>> /\ strip(ret.exp.category) = ret.exp.category
            /\ ret.exp.description # <<>>
            /\ strip(ret.exp.description) = ret.exp.description

\* C4: load() raises nothing whatever the expense file holds, appends exactly
\* the valid rows in file order, skips the others, and returns the number of
\* valid rows as the expense count (0 for an absent file).
C4_LenientLoad ==
  [][op' = "load"
       => /\ ret'.raised = ""
          /\ expenses' = expenses \o ValidExpenses(FileRows(expFile))
          /\ ret'.exp_count = Len(ValidExpenses(FileRows(expFile)))]_vars

\* C5: when the budget file exists but does not parse as a whole, load()
\* raises nothing, leaves the budget map empty, returns budget count 0, and
\* the expenses it loaded in the same call are unaffected.
C5_AllOrNothingBudgets ==
  [][(op' = "load" /\ BudgetFileCorrupt(budFile))
       => /\ ret'.raised = ""
          /\ budgets' = EmptyBudgets
          /\ ret'.bud_count = 0
          /\ expenses' = load_expenses(expenses, expFile).exps]_vars

\* C6: for a month key with a budget set, budget_status returns the month's
\* total, remaining = budget - total exactly, and within_budget exactly when
\* remaining >= 0, exceeded_budget otherwise.
C6_BudgetStatus ==
  (op = "budget_status" /\ arg.month_key \in DOMAIN budgets)
    => /\ ~ret.raised
       /\ ret.total.some /\ ret.remaining.some /\ ret.budget.some
       /\ ret.total.v.k = "fin" /\ ret.remaining.v.k = "fin" /\ ret.budget.v.k = "fin"
       /\ RefScaled(ret.total.v, RefExp)
            = RefSum(expenses, Len(expenses), Some(arg.month_key), RefExp)
       /\ ret.budget.v = budgets[arg.month_key]
       /\ RefScaled(ret.remaining.v, RefExp)
            = RefScaled(ret.budget.v, RefExp) - RefScaled(ret.total.v, RefExp)
       /\ ret.status = IF RefScaled(ret.remaining.v, RefExp) >= 0
                         THEN "within_budget" ELSE "exceeded_budget"

\* C7: for a month key with no budget, budget_status returns no_budget with
\* the month's total and with budget and remaining absent rather than a
\* not-a-number, and the caller never reports the month as within or over
\* budget.
C7_NoBudgetAbsent ==
  /\ (op = "budget_status" /\ arg.month_key \notin DOMAIN budgets)
       => /\ ~ret.raised /\ ret.status = "no_budget"
          /\ ret.total.some
          /\ RefScaled(ret.total.v, RefExp)
               = RefSum(expenses, Len(expenses), Some(arg.month_key), RefExp)
          /\ ~ret.budget.some /\ ~ret.remaining.some
  /\ (op = "track_budget_flow" /\ arg.month_key \notin DOMAIN budgets)
       => ret.printed \notin {"within", "exceeded"}

\* C8: list_expenses returns exactly the expenses that satisfy every supplied
\* filter (month key of the date; category ignoring case), as a subsequence
\* in stored order, all of them when no filter is supplied, and leaves the
\* stored sequence as it was.
C8_ListExpenses ==
  [][op' = "list_expenses"
       => /\ ret' = RefList(expenses, arg'.month_key, arg'.category)
          /\ expenses' = expenses]_vars

\* both filters supplied, a proper non-empty part of the ledger returned, and
\* a returned category that differs from the asked one in case only
C8_Witness ==
  /\ op = "list_expenses" /\ Truthy(arg.month_key) /\ Truthy(arg.category)
  /\ Len(ret) >= 1 /\ Len(ret) < Len(expenses)
  /\ \E i \in 1..Len(ret) : ret[i].category # arg.category.s

\* C9: total_expenses of a month key is the exact sum of the amounts of the
\* expenses dated in that month, 0 when there are none, and without a month
\* key the sum over all expenses.
C9_TotalExpenses ==
  op = "total_expenses"
    => /\ ret.k = "fin"
       /\ RefScaled(ret, RefExp) = RefSum(expenses, Len(expenses), arg.month_key, RefExp)

\* a month's total over two expenses whose amounts have different exponents,
\* while the ledger is asked for one month only
C9_Witness ==
  /\ op = "total_expenses" /\ Truthy(arg.month_key)
  /\ Len(expenses) = 2
  /\ InMonth(expenses[1], arg.month_key.s) /\ InMonth(expenses[2], arg.month_key.s)
  /\ expenses[1].amount.e # expenses[2].amount.e
  /\ ret = Fin(0, 1250, -2)

\* C10: set_budget with amount <= 0 fails and changes neither budgets nor
\* expenses; with amount > 0 it sets that month key's budget to the amount,
\* get_budget then returns it, and every other month key keeps its budget.
C10_SetBudget ==
  [][op' = "set_budget"
       => LET k == arg'.month_key
              a == arg'.amount
          IN  /\ expenses' = expenses
              /\ IF a.c = 0 \/ a.s = 1
                   THEN ret'.raised = "ValueError" /\ budgets' = budgets
                   ELSE /\ ret'.raised = ""
                        /\ get_budget(budgets', k) = Present(a)
                        /\ DOMAIN budgets' = DOMAIN budgets \cup {k}
                        /\ \A j \in DOMAIN budgets : j # k => budgets'[j] = budgets[j]]_vars

\* a budget just set next to another month's different budget
C10_Witness ==
  /\ op = "set_budget" /\ ret.raised = ""
  /\ budgets[arg.month_key] = arg.amount
  /\ \E j \in DOMAIN budgets : j # arg.month_key /\ budgets[j] # arg.amount

\* C11: in every reachable state, after any calls of load(), set_budget() and
\* add_expense() over any budget file content, every value of the in-memory
\* budget map is a finite decimal amount greater than 0.
C11_BudgetsPositive ==
  \A k \in DOMAIN budgets :
    budgets[k].k = "fin" /\ budgets[k].s = 0 /\ budgets[k].c > 0

====
